---- MODULE Spec2Model ----
(***************************************************************************)
(* Model of app.py, the customer case analysis dashboard: one cached       *)
(* loader/cleaner (load_and_clean_data) followed by a linear script of     *)
(* five chart sections.  A data frame is a record [cols, rows]: the set of *)
(* column names and the sequence of rows, each row a function from the     *)
(* column names to cells.                                                  *)
(***************************************************************************)
EXTENDS Integers, Sequences, FiniteSets, TLC

VARIABLES
    file,           \* data/data.csv on disk
    cache,          \* the st.cache_data entry of load_and_clean_data
    reads,          \* number of pd.read_csv calls made by this process
    run,            \* number of the current script run in this process
    pc,             \* position of the script in the current run
    df,             \* the module-level name df
    loaded,         \* the frame as load_and_clean_data returned it in this run
    page,           \* elements rendered on the main page in this run
    sidebar,        \* notices rendered in the side panel in this run
    err,            \* how the run ended when it did not reach the last line
    status_counts, origin_counts, top_brands, top_reasons, monthly_cases

vars == <<file, cache, reads, run, pc, df, loaded, page, sidebar, err,
          status_counts, origin_counts, top_brands, top_reasons, monthly_cases>>

----------------------------------------------------------------------------
(* Bounds of the model *)

MaxRows == 3        \* longest file of the general family
NBrands == 11       \* distinct brands (and reasons) in the wide family
MaxRuns == 2        \* script runs within one process lifetime

----------------------------------------------------------------------------
(* Characters and strings (a string that is parsed is a sequence of chars) *)

Chars == <<"-", "0", "1", "2", "3", "4", "5", "6", "7", "8", "9">>

IsDigit(c) == \E i \in 2..11 : Chars[i] = c

\* position of a character in the collating order ("-" sorts before digits)
Ord(c) == CHOOSE i \in 1..11 : Chars[i] = c

DigitVal(c) == Ord(c) - 2

Digit(n) == Chars[n + 2]

\* s < t in the lexicographic order of strings
StrLess(s, t) ==
    \E k \in 1..Len(t) :
        /\ k <= Len(s) + 1
        /\ \A j \in 1..(k - 1) : s[j] = t[j]
        /\ \/ k = Len(s) + 1
           \/ Ord(s[k]) < Ord(t[k])

----------------------------------------------------------------------------
(* Cells *)

NaN == "NaN"                   \* absent value of a text column
NaT == [nat |-> TRUE]          \* absent value of a datetime column
NaNDate == [nan |-> TRUE]      \* absent value of 'Opened Date' before parsing

Timestamp(y, m, d) == [y |-> y, m |-> m, d |-> d]

IsTimestamp(c) == "y" \in DOMAIN c

DateCol == "Opened Date"

IsNull(col, c) ==
    IF col = DateCol THEN ~IsTimestamp(c) /\ ~("str" \in DOMAIN c)
    ELSE c = NaN

IsLeap(y) == (y % 4 = 0 /\ y % 100 # 0) \/ y % 400 = 0

DaysIn(y, m) ==
    IF m = 2 THEN (IF IsLeap(y) THEN 29 ELSE 28)
    ELSE IF m \in {4, 6, 9, 11} THEN 30 ELSE 31

\* the timestamp a "YYYY-MM-DD" or "YYYY-MM" string denotes, NaT when it is none
ParseDate(s) ==
    IF /\ Len(s) \in {7, 10}
       /\ \A i \in 1..Len(s) : IF i \in {5, 8} THEN s[i] = "-" ELSE IsDigit(s[i])
    THEN LET y == 1000 * DigitVal(s[1]) + 100 * DigitVal(s[2])
                  + 10 * DigitVal(s[3]) + DigitVal(s[4])
             m == 10 * DigitVal(s[6]) + DigitVal(s[7])
             d == IF Len(s) = 10 THEN 10 * DigitVal(s[9]) + DigitVal(s[10]) ELSE 1
         IN  IF m \in 1..12 /\ d \in 1..DaysIn(y, m) THEN Timestamp(y, m, d) ELSE NaT
    ELSE NaT

\* pd.to_datetime(..., errors='coerce') on one cell
ToDatetime(c) ==
    IF IsTimestamp(c) THEN c
    ELSE IF "str" \in DOMAIN c THEN ParseDate(c.str)
    ELSE NaT

\* a period of a day instead of a month: "YYYY-MM-DD"
PeriodStrDaily(t) ==
    << Digit(t.y \div 1000), Digit((t.y \div 100) % 10), Digit((t.y \div 10) % 10),
       Digit(t.y % 10), "-", Digit(t.m \div 10), Digit(t.m % 10), "-",
       Digit(t.d \div 10), Digit(t.d % 10) >>

\* .dt.to_period('M').astype(str) on one timestamp: "YYYY-MM"
PeriodStr(t) ==
    << Digit(t.y \div 1000), Digit((t.y \div 100) % 10), Digit((t.y \div 10) % 10),
       Digit(t.y % 10), "-", Digit(t.m \div 10), Digit(t.m % 10) >>

TsLess(a, b) ==
    \/ a.y < b.y
    \/ a.y = b.y /\ a.m < b.m
    \/ a.y = b.y /\ a.m = b.m /\ a.d < b.d

----------------------------------------------------------------------------
(* Frames *)

EmptyFrame == [cols |-> {}, rows |-> <<>>]

\* the rows of s at the indices satisfying Keep, in order
SelectIdx(s, Keep(_)) ==
    LET F[i \in 0..Len(s)] ==
            IF i = 0 THEN <<>>
            ELSE IF Keep(i) THEN Append(F[i - 1], s[i]) ELSE F[i - 1]
    IN  F[Len(s)]

MapSeq(s, Op(_)) == [i \in 1..Len(s) |-> Op(s[i])]

DropColumn(f, col) ==
    [cols |-> f.cols \ {col},
     rows |-> MapSeq(f.rows, LAMBDA r : [c \in f.cols \ {col} |-> r[c]])]

----------------------------------------------------------------------------
(* load_and_clean_data: the steps of the loader as frame transformations *)

\* spellings pd.read_csv reads as an absent value
NaStrings == {"", "NA", "N/A", "NaN", "null"}
NaCharStrings == {<<>>, <<"N", "A">>}

\* pd.read_csv of a readable file: the header gives the columns, empty cells are absent
ReadCsv(f) ==
    [cols |-> f.header,
     rows |-> MapSeq(f.rows, LAMBDA r :
                [c \in f.header |->
                    IF c = DateCol
                    THEN (IF r[c] \in NaCharStrings THEN NaNDate ELSE [str |-> r[c]])
                    ELSE (IF r[c] \in NaStrings THEN NaN ELSE r[c])])]

\* df['Opened Date'] = pd.to_datetime(df['Opened Date'], errors='coerce')
ParseOpened(f) ==
    [f EXCEPT !.rows = MapSeq(f.rows, LAMBDA r : [r EXCEPT ![DateCol] = ToDatetime(r[DateCol])])]

\* a dropna without its subset: every row with an absent cell anywhere goes
DropNaAnywhere(f) ==
    [f EXCEPT !.rows = SelectIdx(f.rows, LAMBDA i :
                           \A c \in f.cols : ~IsNull(c, f.rows[i][c]))]

\* df.dropna(subset=['Opened Date'], inplace=True)
DropNaT(f) ==
    [f EXCEPT !.rows = SelectIdx(f.rows, LAMBDA i : ~IsNull(DateCol, f.rows[i][DateCol]))]

\* the condition of the 'Store' pruning
StoreIsAllNull(f) ==
    "Store" \in f.cols /\ \A i \in 1..Len(f.rows) : IsNull("Store", f.rows[i]["Store"])

\* a pruning of every column that is entirely absent, whatever its name
DropAllNullColumns(f) ==
    LET dead == { c \in f.cols : \A i \in 1..Len(f.rows) : IsNull(c, f.rows[i][c]) }
    IN  [cols |-> f.cols \ dead,
         rows |-> MapSeq(f.rows, LAMBDA r : [c \in f.cols \ dead |-> r[c]])]

\* if 'Store' in df.columns and df['Store'].isnull().all(): df.drop(columns=['Store'])
DropStore(f) == IF StoreIsAllNull(f) THEN DropColumn(f, "Store") ELSE f

\* a drop_duplicates whose result is thrown away
KeepDuplicates(f) == f

\* df.drop_duplicates(inplace=True): the first of each group of equal rows is kept
DropDuplicates(f) ==
    [f EXCEPT !.rows = SelectIdx(f.rows, LAMBDA i : \A j \in 1..(i - 1) : f.rows[j] # f.rows[i])]

\* the cleaning steps, in the order of the loader
CleanFrame(f) == DropDuplicates(DropStore(DropNaT(ParseOpened(f))))

\* the st.sidebar.info notices of the loader
CleanNotices(f) ==
    LET dated == DropNaT(ParseOpened(f))
        pruned == DropStore(dated)
        removed == Len(pruned.rows) - Len(DropDuplicates(pruned).rows)
    IN  (IF StoreIsAllNull(dated) THEN << [kind |-> "store_dropped"] >> ELSE <<>>)
        \o (IF removed > 0 THEN << [kind |-> "duplicates_removed", n |-> removed] >>
            ELSE << [kind |-> "no_duplicates"] >>)

----------------------------------------------------------------------------
(* The aggregations of the five sections *)

TopN == 10

\* s with x put before the first element that x strictly precedes
InsertBy(s, x, Before(_, _)) ==
    LET later == { k \in 1..Len(s) : Before(x, s[k]) }
        at == IF later = {} THEN Len(s) + 1
              ELSE CHOOSE k \in later : \A l \in later : k <= l
    IN  SubSeq(s, 1, at - 1) \o <<x>> \o SubSeq(s, at, Len(s))

\* stable sort: elements neither of which precedes the other keep their order
SortBy(s, Before(_, _)) ==
    LET F[i \in 0..Len(s)] ==
            IF i = 0 THEN <<>> ELSE InsertBy(F[i - 1], s[i], Before)
    IN  F[Len(s)]

\* number of rows of f holding v in column col
CountOf(f, col, v) == Cardinality({ i \in 1..Len(f.rows) : f.rows[i][col] = v })

\* a value_counts(dropna=False): the absent value is counted as one more category
ValueCountsKeepNa(f, col) ==
    LET firsts == SelectIdx(f.rows, LAMBDA i :
                      \A j \in 1..(i - 1) : f.rows[j][col] # f.rows[i][col])
        pairs == MapSeq(firsts, LAMBDA r : [value |-> r[col], n |-> CountOf(f, col, r[col])])
    IN  SortBy(pairs, LAMBDA a, b : a.n > b.n)

\* df[col].value_counts().reset_index(): one (value, count) pair per distinct value
\* that is not absent, by descending count, equal counts in order of first appearance
ValueCounts(f, col) ==
    LET firsts == SelectIdx(f.rows, LAMBDA i :
                      /\ ~IsNull(col, f.rows[i][col])
                      /\ \A j \in 1..(i - 1) : f.rows[j][col] # f.rows[i][col])
        pairs == MapSeq(firsts, LAMBDA r : [value |-> r[col], n |-> CountOf(f, col, r[col])])
    IN  SortBy(pairs, LAMBDA a, b : a.n > b.n)

\* .head(n)
HeadN(s, n) == SubSeq(s, 1, IF Len(s) < n THEN Len(s) ELSE n)

\* a head(10) taken of the values in order of first appearance, not by count
TopCountsUnsorted(f, col) ==
    LET firsts == SelectIdx(f.rows, LAMBDA i :
                      /\ ~IsNull(col, f.rows[i][col])
                      /\ \A j \in 1..(i - 1) : f.rows[j][col] # f.rows[i][col])
    IN  HeadN(MapSeq(firsts, LAMBDA r : [value |-> r[col], n |-> CountOf(f, col, r[col])]), TopN)

\* df[col].value_counts().head(10).reset_index()
TopCounts(f, col) == HeadN(ValueCounts(f, col), TopN)

\* a YearMonth column that takes the place of 'Opened Date'
AddYearMonthDropDate(f) ==
    [cols |-> (f.cols \ {DateCol}) \cup {"YearMonth"},
     rows |-> MapSeq(f.rows, LAMBDA r :
                [c \in (f.cols \ {DateCol}) \cup {"YearMonth"} |->
                    IF c = "YearMonth" THEN PeriodStr(r[DateCol]) ELSE r[c]])]

\* df['YearMonth'] = df['Opened Date'].dt.to_period('M').astype(str)
AddYearMonth(f) ==
    [cols |-> f.cols \cup {"YearMonth"},
     rows |-> MapSeq(f.rows, LAMBDA r :
                [c \in f.cols \cup {"YearMonth"} |->
                    IF c = "YearMonth" THEN PeriodStr(r[DateCol]) ELSE r[c]])]

\* df.groupby('YearMonth').size().reset_index(...): one pair per key, keys ascending
GroupSize(f) ==
    LET firsts == SelectIdx(f.rows, LAMBDA i :
                      \A j \in 1..(i - 1) : f.rows[j]["YearMonth"] # f.rows[i]["YearMonth"])
        pairs == MapSeq(firsts, LAMBDA r :
                      [YearMonth |-> r["YearMonth"], n |-> CountOf(f, "YearMonth", r["YearMonth"])])
    IN  SortBy(pairs, LAMBDA a, b : StrLess(a.YearMonth, b.YearMonth))

\* pd.to_datetime(monthly_cases['YearMonth']), then sort_values('YearMonth')
MonthlyCases(f) ==
    LET parsed == MapSeq(GroupSize(f), LAMBDA p : [p EXCEPT !.YearMonth = ParseDate(p.YearMonth)])
    IN  SortBy(parsed, LAMBDA a, b : TsLess(a.YearMonth, b.YearMonth))

----------------------------------------------------------------------------
(* The input files the model runs on *)

AllColumns == {DateCol, "Status", "Case Origin", "Product: Brand", "Reason L1 desc",
               "Store", "Region"}

IsoDate(y, m, d) ==
    << Digit(y \div 1000), Digit((y \div 100) % 10), Digit((y \div 10) % 10),
       Digit(y % 10), "-", Digit(m \div 10), Digit(m % 10), "-",
       Digit(d \div 10), Digit(d % 10) >>

RawRow(date, status, origin, brand, reason, store, region) ==
    (DateCol :> date) @@ ("Status" :> status) @@ ("Case Origin" :> origin)
    @@ ("Product: Brand" :> brand) @@ ("Reason L1 desc" :> reason)
    @@ ("Store" :> store) @@ ("Region" :> region)

\* date cells: two valid dates, a day that does not exist, an empty cell
DateCells == {IsoDate(2024, 1, 15), IsoDate(2023, 12, 31), IsoDate(2024, 2, 30), <<>>}

RowPool ==
    { RawRow(d, "Closed", "Email", "Knorr", "Others", "", "") : d \in DateCells }
    \cup { RawRow(d, "", "Phone", "", "Queries", "Lagos", "West") :
               d \in {IsoDate(2024, 1, 15), IsoDate(2024, 2, 30)} }

SeqsUpTo(S, n) == UNION { [1..k -> S] : k \in 0..n }

Headers == {AllColumns} \cup { AllColumns \ {c} : c \in AllColumns }

Restrict(r, cols) == [c \in cols |-> r[c]]

\* general family: short files over the row pool, with or without one of the columns
GeneralFiles ==
    { [kind |-> "ok", header |-> h, rows |-> MapSeq(rs, LAMBDA r : Restrict(r, h))] :
        h \in Headers, rs \in SeqsUpTo(RowPool, MaxRows) }

BrandNames == << "Unilever Corporate", "Knorr", "Pepsodent", "Close Up", "Lux", "Omo",
                 "Sunlight", "Vaseline", "Lipton", "Royco", "Blue Band", "Rexona",
                 "Dove", "Axe", "Lifebuoy", "Pears" >>

ReasonNames == << "Others", "Queries", "Feedback/Comment", "Praises", "Complaints",
                  "Requests", "Suggestions", "Promotions", "Availability", "Pricing",
                  "Packaging", "Quality", "Delivery", "Refund", "Warranty", "Spam" >>

WideRow(i, k) ==
    RawRow(IsoDate(2023 + (i % 2), ((5 * i) % 12) + 1, k), "Closed", "Email",
           BrandNames[i], ReasonNames[NBrands + 1 - i], "", "")

\* wide family: NBrands brands in file order, those in heavy on two rows
WideRows(heavy) ==
    LET F[i \in 0..NBrands] ==
            IF i = 0 THEN <<>>
            ELSE F[i - 1] \o << WideRow(i, 1) >>
                 \o (IF i \in heavy THEN << WideRow(i, 2) >> ELSE <<>>)
    IN  F[NBrands]

WideFiles ==
    { [kind |-> "ok", header |-> AllColumns, rows |-> WideRows(heavy)] :
        heavy \in { h \in SUBSET (1..NBrands) : Cardinality(h) <= 2 } }

Files == GeneralFiles \cup WideFiles
        \cup { [kind |-> "missing"], [kind |-> "unreadable"] }

----------------------------------------------------------------------------
(* The script *)

NoCache == [hit |-> FALSE, value |-> EmptyFrame, notices |-> <<>>]

Init ==
    /\ file \in Files
    /\ cache = NoCache
    /\ reads = 0
    /\ run = 1
    /\ pc = "load"
    /\ df = EmptyFrame
    /\ loaded = EmptyFrame
    /\ page = <<>>
    /\ sidebar = <<>>
    /\ err = "none"
    /\ status_counts = <<>>
    /\ origin_counts = <<>>
    /\ top_brands = <<>>
    /\ top_reasons = <<>>
    /\ monthly_cases = <<>>

tables == <<status_counts, origin_counts, top_brands, top_reasons, monthly_cases>>

\* df = load_and_clean_data(), served by st.cache_data: the stored value is handed
\* out as a copy and the notices recorded with it are shown again
LoadCached ==
    /\ pc = "load"
    /\ cache.hit
    /\ df' = cache.value
    /\ loaded' = cache.value
    /\ sidebar' = sidebar \o cache.notices
    /\ pc' = "intro"
    /\ UNCHANGED <<file, cache, reads, run, page, err, tables>>

\* the except clause without its st.stop(): the script goes on after the message
LoadFileNotFoundNoStop ==
    /\ pc = "load"
    /\ ~cache.hit
    /\ file.kind = "missing"
    /\ reads' = reads + 1
    /\ page' = Append(page, "error")
    /\ pc' = "intro"
    /\ UNCHANGED <<file, cache, run, df, loaded, sidebar, err, tables>>

\* pd.read_csv raises FileNotFoundError: st.error, then st.stop() ends the run
LoadFileNotFound ==
    /\ pc = "load"
    /\ ~cache.hit
    /\ file.kind = "missing"
    /\ reads' = reads + 1
    /\ page' = Append(page, "error")
    /\ err' = "st.stop"
    /\ pc' = "stopped"
    /\ UNCHANGED <<file, cache, run, df, loaded, sidebar, tables>>

\* pd.read_csv raises something else (the except clause names FileNotFoundError only):
\* the exception leaves the script and the runtime shows it in place of the page
LoadUnreadable ==
    /\ pc = "load"
    /\ ~cache.hit
    /\ file.kind = "unreadable"
    /\ reads' = reads + 1
    /\ page' = Append(page, "exception")
    /\ err' = "exception"
    /\ pc' = "crashed"
    /\ UNCHANGED <<file, cache, run, df, loaded, sidebar, tables>>

\* df['Opened Date'] raises KeyError inside the loader
LoadNoDateColumn ==
    /\ pc = "load"
    /\ ~cache.hit
    /\ file.kind = "ok"
    /\ DateCol \notin file.header
    /\ reads' = reads + 1
    /\ page' = Append(page, "exception")
    /\ err' = "exception"
    /\ pc' = "crashed"
    /\ UNCHANGED <<file, cache, run, df, loaded, sidebar, tables>>

\* the loader without @st.cache_data: nothing is stored
LoadAndCleanUncached ==
    /\ pc = "load"
    /\ file.kind = "ok"
    /\ DateCol \in file.header
    /\ LET raw == ReadCsv(file)
       IN  /\ df' = CleanFrame(raw)
           /\ loaded' = CleanFrame(raw)
           /\ sidebar' = sidebar \o CleanNotices(raw)
    /\ reads' = reads + 1
    /\ pc' = "intro"
    /\ UNCHANGED <<file, cache, run, page, err, tables>>

\* the loader runs to its return; the result and its notices are stored
LoadAndClean ==
    /\ pc = "load"
    /\ ~cache.hit
    /\ file.kind = "ok"
    /\ DateCol \in file.header
    /\ LET raw == ReadCsv(file)
           clean == CleanFrame(raw)
           notes == CleanNotices(raw)
       IN  /\ cache' = [hit |-> TRUE, value |-> clean, notices |-> notes]
           /\ df' = clean
           /\ loaded' = clean
           /\ sidebar' = sidebar \o notes
    /\ reads' = reads + 1
    /\ pc' = "intro"
    /\ UNCHANGED <<file, run, page, err, tables>>

\* st.set_page_config, st.title, st.write, st.markdown("---")
Intro ==
    /\ pc = "intro"
    /\ page' = page \o <<"title", "intro", "rule">>
    /\ pc' = "status"
    /\ UNCHANGED <<file, cache, reads, run, df, loaded, sidebar, err, tables>>

\* the part of a section after its header, for a table built without error
ChartOf(name) == <<"chart:" \o name, "finding:" \o name, "rule">>

\* section 1: st.header, df['Status'].value_counts(), chart, finding
SectionStatus ==
    /\ pc = "status"
    /\ "Status" \in df.cols
    /\ status_counts' = ValueCounts(df, "Status")
    /\ page' = Append(page, "header:status") \o ChartOf("status")
    /\ pc' = "origin"
    /\ UNCHANGED <<file, cache, reads, run, df, loaded, sidebar, err,
                   origin_counts, top_brands, top_reasons, monthly_cases>>

\* section 1 when df['Status'] raises KeyError: the header is out, the exception is
\* shown and the run ends
SectionStatusKeyError ==
    /\ pc = "status"
    /\ "Status" \notin df.cols
    /\ page' = page \o <<"header:status", "exception">>
    /\ err' = "exception"
    /\ pc' = "crashed"
    /\ UNCHANGED <<file, cache, reads, run, df, loaded, sidebar, tables>>

\* section 2: df['Case Origin'].value_counts()
SectionOrigin ==
    /\ pc = "origin"
    /\ "Case Origin" \in df.cols
    /\ origin_counts' = ValueCounts(df, "Case Origin")
    /\ page' = Append(page, "header:origin") \o ChartOf("origin")
    /\ pc' = "brands"
    /\ UNCHANGED <<file, cache, reads, run, df, loaded, sidebar, err,
                   status_counts, top_brands, top_reasons, monthly_cases>>

SectionOriginKeyError ==
    /\ pc = "origin"
    /\ "Case Origin" \notin df.cols
    /\ page' = page \o <<"header:origin", "exception">>
    /\ err' = "exception"
    /\ pc' = "crashed"
    /\ UNCHANGED <<file, cache, reads, run, df, loaded, sidebar, tables>>

\* section 3: df['Product: Brand'].value_counts().head(10)
SectionBrands ==
    /\ pc = "brands"
    /\ "Product: Brand" \in df.cols
    /\ top_brands' = TopCounts(df, "Product: Brand")
    /\ page' = Append(page, "header:brands") \o ChartOf("brands")
    /\ pc' = "reasons"
    /\ UNCHANGED <<file, cache, reads, run, df, loaded, sidebar, err,
                   status_counts, origin_counts, top_reasons, monthly_cases>>

SectionBrandsKeyError ==
    /\ pc = "brands"
    /\ "Product: Brand" \notin df.cols
    /\ page' = page \o <<"header:brands", "exception">>
    /\ err' = "exception"
    /\ pc' = "crashed"
    /\ UNCHANGED <<file, cache, reads, run, df, loaded, sidebar, tables>>

\* section 4: df['Reason L1 desc'].value_counts().head(10)
SectionReasons ==
    /\ pc = "reasons"
    /\ "Reason L1 desc" \in df.cols
    /\ top_reasons' = TopCounts(df, "Reason L1 desc")
    /\ page' = Append(page, "header:reasons") \o ChartOf("reasons")
    /\ pc' = "monthly"
    /\ UNCHANGED <<file, cache, reads, run, df, loaded, sidebar, err,
                   status_counts, origin_counts, top_brands, monthly_cases>>

SectionReasonsKeyError ==
    /\ pc = "reasons"
    /\ "Reason L1 desc" \notin df.cols
    /\ page' = page \o <<"header:reasons", "exception">>
    /\ err' = "exception"
    /\ pc' = "crashed"
    /\ UNCHANGED <<file, cache, reads, run, df, loaded, sidebar, tables>>

\* section 5: the YearMonth column is added to df, then grouped, parsed back and sorted
SectionMonthly ==
    /\ pc = "monthly"
    /\ df' = AddYearMonth(df)
    /\ monthly_cases' = MonthlyCases(AddYearMonth(df))
    /\ page' = Append(page, "header:monthly") \o ChartOf("monthly")
    /\ pc' = "banner"
    /\ UNCHANGED <<file, cache, reads, run, loaded, sidebar, err,
                   status_counts, origin_counts, top_brands, top_reasons>>

\* st.info(...): the last line of the script
Banner ==
    /\ pc = "banner"
    /\ page' = Append(page, "banner")
    /\ pc' = "done"
    /\ UNCHANGED <<file, cache, reads, run, df, loaded, sidebar, err, tables>>

RunEnded == pc \in {"done", "stopped", "crashed"}

\* the next run of the script in the same process: fresh globals and page, same cache
Rerun ==
    /\ RunEnded
    /\ run < MaxRuns
    /\ run' = run + 1
    /\ pc' = "load"
    /\ df' = EmptyFrame
    /\ loaded' = EmptyFrame
    /\ page' = <<>>
    /\ sidebar' = <<>>
    /\ err' = "none"
    /\ status_counts' = <<>>
    /\ origin_counts' = <<>>
    /\ top_brands' = <<>>
    /\ top_reasons' = <<>>
    /\ monthly_cases' = <<>>
    /\ UNCHANGED <<file, cache, reads>>

Next ==
    \/ LoadCached
    \/ LoadFileNotFound
    \/ LoadUnreadable
    \/ LoadNoDateColumn
    \/ LoadAndClean
    \/ Intro
    \/ SectionStatus
    \/ SectionStatusKeyError
    \/ SectionOrigin
    \/ SectionOriginKeyError
    \/ SectionBrands
    \/ SectionBrandsKeyError
    \/ SectionReasons
    \/ SectionReasonsKeyError
    \/ SectionMonthly
    \/ Banner
    \/ Rerun

Spec == Init /\ [][Next]_vars

----------------------------------------------------------------------------
(* Properties *)

\* load_and_clean_data returned in this run
Returned == DateCol \in loaded.cols

\* the main page of this run shows the chart of the named section
Rendered(name) == \E i \in 1..Len(page) : page[i] = "chart:" \o name

RowsOf(f) == 1..Len(f.rows)

\* what a row of the file looks like in the returned frame
CleanedImage(r) ==
    [c \in loaded.cols |->
        IF c = DateCol THEN ParseDate(r[c])
        ELSE IF r[c] \in NaStrings THEN NaN ELSE r[c]]

Parses(r) == ParseDate(r[DateCol]) # NaT

\* C1: every row of the returned frame has a parsed 'Opened Date'; a row of the
\* file is in the returned frame (once, whatever the number of copies) exactly
\* when its 'Opened Date' parses
C1_OpenedDateParsed ==
    Returned =>
        /\ \A i \in RowsOf(loaded) : IsTimestamp(loaded.rows[i][DateCol])
        /\ \A k \in RowsOf(file) :
               Parses(file.rows[k]) =>
                   \E i \in RowsOf(loaded) : loaded.rows[i] = CleanedImage(file.rows[k])
        /\ \A i \in RowsOf(loaded) :
               \E k \in RowsOf(file) :
                   Parses(file.rows[k]) /\ loaded.rows[i] = CleanedImage(file.rows[k])

\* a file with a row whose date is no date, a row without date and a row that stays
C1_Witness ==
    /\ Returned
    /\ \E k \in RowsOf(file) : file.rows[k][DateCol] = IsoDate(2024, 2, 30)
    /\ \E k \in RowsOf(file) : file.rows[k][DateCol] = <<>>
    /\ Len(loaded.rows) = 1

AllNull(f, c) == \A i \in RowsOf(f) : IsNull(c, f.rows[i][c])

\* C2 as stated: no column of the returned frame is absent in all of its rows
C2_NoAllNullColumn ==
    (Returned /\ Len(loaded.rows) > 0) => \A c \in loaded.cols : ~AllNull(loaded, c)

\* C2 amended: 'Store' is the one column the loader prunes: it is gone when it is
\* absent in every remaining row, and every other column of the file is returned,
\* entirely absent or not
C2_OnlyStorePruned ==
    Returned =>
        /\ "Store" \in loaded.cols => ~AllNull(loaded, "Store")
        /\ file.header \ {"Store"} \subseteq loaded.cols
        /\ loaded.cols \subseteq file.header

\* 'Store' was pruned and 'Region', absent in every row, was returned
C2_Witness ==
    /\ Returned
    /\ Len(loaded.rows) > 0
    /\ "Store" \in file.header
    /\ "Store" \notin loaded.cols
    /\ "Region" \in loaded.cols
    /\ AllNull(loaded, "Region")

\* C3: the rows of the returned frame are pairwise different, and the cleaning
\* steps applied to the returned frame leave its number of rows as it is
C3_NoDuplicateRows ==
    Returned =>
        /\ \A i, j \in RowsOf(loaded) : i # j => loaded.rows[i] # loaded.rows[j]
        /\ Len(CleanFrame(loaded).rows) = Len(loaded.rows)

\* a file with two equal rows, of which one was returned and one reported removed
C3_Witness ==
    /\ Returned
    /\ \E k, l \in RowsOf(file) : k # l /\ file.rows[k] = file.rows[l] /\ Parses(file.rows[k])
    /\ \E i \in 1..Len(sidebar) : sidebar[i] = [kind |-> "duplicates_removed", n |-> 1]

\* C4: with the file missing or unreadable the run ends in the loader: the page
\* holds the error message and nothing else, no table is built and no frame returned
C4_MissingFileHalts ==
    (file.kind # "ok" /\ pc # "load") =>
        /\ RunEnded
        /\ page = IF file.kind = "missing" THEN <<"error">> ELSE <<"exception">>
        /\ ~Returned
        /\ tables = <<<<>>, <<>>, <<>>, <<>>, <<>>>>

\* a run on a missing file that has ended, in each of the runs of the process
C4_Witness ==
    /\ file.kind = "missing"
    /\ run = MaxRuns
    /\ pc = "stopped"
    /\ page = <<"error">>

SumN(t) ==
    LET F[i \in 0..Len(t)] == IF i = 0 THEN 0 ELSE F[i - 1] + t[i].n
    IN  F[Len(t)]

NonNull(f, col) == { i \in RowsOf(f) : ~IsNull(col, f.rows[i][col]) }

\* C5 as stated: the 'Status' counts and the 'Case Origin' counts each sum to the
\* number of rows, the two top-10 tables to at most the number of rows
C5_CountsSumToRows ==
    /\ Rendered("status") => SumN(status_counts) = Len(loaded.rows)
    /\ Rendered("origin") => SumN(origin_counts) = Len(loaded.rows)
    /\ Rendered("brands") => SumN(top_brands) <= Len(loaded.rows)
    /\ Rendered("reasons") => SumN(top_reasons) <= Len(loaded.rows)

\* C5 amended: the 'Status' counts sum to the number of rows whose 'Status' is not
\* absent, and so for 'Case Origin'; the top-10 tables sum to at most the number of
\* rows whose brand (reason) is not absent; none exceeds the number of rows
C5_CountsSumToNonNullRows ==
    /\ Rendered("status") =>
           SumN(status_counts) = Cardinality(NonNull(loaded, "Status"))
    /\ Rendered("origin") =>
           SumN(origin_counts) = Cardinality(NonNull(loaded, "Case Origin"))
    /\ Rendered("brands") =>
           SumN(top_brands) <= Cardinality(NonNull(loaded, "Product: Brand"))
    /\ Rendered("reasons") =>
           SumN(top_reasons) <= Cardinality(NonNull(loaded, "Reason L1 desc"))

\* a frame with an absent 'Status' whose counts fall short of the rows, and a
\* 'Case Origin' without absent value whose counts sum to the rows
C5_Witness ==
    /\ Rendered("reasons")
    /\ SumN(status_counts) < Len(loaded.rows)
    /\ SumN(status_counts) > 0
    /\ SumN(origin_counts) = Len(loaded.rows)

Values(f, col) == { f.rows[i][col] : i \in NonNull(f, col) }

Min(a, b) == IF a < b THEN a ELSE b

\* a table pairs each of its (different) values with the number of rows holding it
ExactCounts(t, col) ==
    /\ \A i \in 1..Len(t) : t[i].n = CountOf(loaded, col, t[i].value) /\ t[i].n > 0
    /\ \A i, j \in 1..Len(t) : i # j => t[i].value # t[j].value

\* a table holds the top 10 of the values of the column
IsTop(t, col) ==
    /\ Len(t) = Min(TopN, Cardinality(Values(loaded, col)))
    /\ ExactCounts(t, col)
    /\ \A i \in 1..(Len(t) - 1) : t[i].n >= t[i + 1].n
    /\ \A v \in Values(loaded, col) :
           (\A i \in 1..Len(t) : t[i].value # v) =>
               \A i \in 1..Len(t) : t[i].n >= CountOf(loaded, col, v)

\* a table lists every value of the column
IsFull(t, col) ==
    /\ { t[i].value : i \in 1..Len(t) } = Values(loaded, col)
    /\ ExactCounts(t, col)

\* C6: the brand and reason tables hold the top 10 by descending count with exact
\* counts; the status and origin tables list every distinct value
C6_TopTen ==
    /\ Rendered("status") => IsFull(status_counts, "Status")
    /\ Rendered("origin") => IsFull(origin_counts, "Case Origin")
    /\ Rendered("brands") => IsTop(top_brands, "Product: Brand")
    /\ Rendered("reasons") => IsTop(top_reasons, "Reason L1 desc")

\* more than ten brands and reasons: the brand of the last row of the file is in
\* the table, ahead of brands of one row, and a brand that came before it is not
C6_Witness ==
    /\ Rendered("reasons")
    /\ Cardinality(Values(loaded, "Product: Brand")) > TopN
    /\ Len(top_brands) = TopN
    /\ Len(top_reasons) = TopN
    /\ top_brands[1].value = loaded.rows[Len(loaded.rows)]["Product: Brand"]
    /\ top_brands[1].n > top_brands[TopN].n

MonthOf(t) == Timestamp(t.y, t.m, 1)

\* C7: the monthly trend is strictly increasing in its month, has one pair for each
\* month in which a row was opened and none else, each with the number of those rows
C7_MonthlyTrend ==
    Rendered("monthly") =>
        /\ \A i \in 1..(Len(monthly_cases) - 1) :
               TsLess(monthly_cases[i].YearMonth, monthly_cases[i + 1].YearMonth)
        /\ { monthly_cases[i].YearMonth : i \in 1..Len(monthly_cases) }
               = { MonthOf(loaded.rows[k][DateCol]) : k \in RowsOf(loaded) }
        /\ \A i \in 1..Len(monthly_cases) :
               /\ monthly_cases[i].n > 0
               /\ monthly_cases[i].n =
                      Cardinality({ k \in RowsOf(loaded) :
                          MonthOf(loaded.rows[k][DateCol]) = monthly_cases[i].YearMonth })

\* a trend over several months of two years whose first row is not the earliest,
\* with a month of more than one row
C7_Witness ==
    /\ Rendered("monthly")
    /\ Len(monthly_cases) > 3
    /\ monthly_cases[1].YearMonth # MonthOf(loaded.rows[1][DateCol])
    /\ monthly_cases[1].YearMonth.y < monthly_cases[Len(monthly_cases)].YearMonth.y
    /\ \E i \in 1..Len(monthly_cases) : monthly_cases[i].n = 2

\* C8 as stated: the frame the script holds is the frame the loader returned
C8_FrameUnchanged == Returned => df = loaded

\* C8 amended: sections 1 to 4 leave the frame as returned; section 5 adds the
\* column 'YearMonth' and leaves the rows and every other column as they were
C8_OnlyYearMonthAdded ==
    Returned =>
        IF pc \in {"banner", "done"}
        THEN /\ df.cols = loaded.cols \cup {"YearMonth"}
             /\ Len(df.rows) = Len(loaded.rows)
             /\ \A i \in RowsOf(loaded) :
                    \A c \in loaded.cols \ {"YearMonth"} : df.rows[i][c] = loaded.rows[i][c]
        ELSE df = loaded

\* section 5 has run on a frame with rows
C8_Witness ==
    /\ Returned
    /\ pc = "done"
    /\ Len(loaded.rows) > 1
    /\ "YearMonth" \in df.cols
    /\ "YearMonth" \notin loaded.cols

\* C9: once the loader has returned, the file has been read once, every run is
\* handed the stored frame, and neither the stored frame nor the number of reads
\* changes again
C9_LoadedOnce ==
    /\ [](Returned => (reads = 1 /\ cache.hit /\ loaded = cache.value))
    /\ [][cache.hit => (cache' = cache /\ reads' = reads)]_vars

\* a later run that was handed the stored frame after an earlier one changed its own
C9_Witness ==
    /\ run > 1
    /\ pc = "done"
    /\ Returned
    /\ Len(loaded.rows) > 0
    /\ reads = 1

SectionColumn ==
    ("status" :> "Status") @@ ("origin" :> "Case Origin")
    @@ ("brands" :> "Product: Brand") @@ ("reasons" :> "Reason L1 desc")
    @@ ("monthly" :> DateCol)

\* C10: a run that got its frame shows the chart of every section whose column
\* the frame has, whichever other section failed
C10_SectionsIndependent ==
    (Returned /\ RunEnded) =>
        \A s \in DOMAIN SectionColumn : SectionColumn[s] \in loaded.cols => Rendered(s)

====
